---- MODULE Spec2Model ----
(***************************************************************************)
(* A model of htop's NetBSD sampler, netbsd/NetBSDProcessList.c: one       *)
(* refresh cycle (ProcessList_goThroughEntries) recomputes the memory      *)
(* snapshot, updates the per-core CPU counters and, unless paused, merges  *)
(* the kernel's process enumeration into the process table.                *)
(*                                                                         *)
(* The kernel's answers (sysctl, kvm_getproc2, kvm_getlwps, kvm_getargv2,  *)
(* malloc) are the inputs of a cycle and are drawn from bounded sets.      *)
(* double values are kept exact, as fractions <<numerator, denominator>>.  *)
(***************************************************************************)
EXTENDS Integers, Sequences, FiniteSets, TLC

VARIABLES cpuCount, fscale, pageSizeKB, settings, cpus, mem, processes, totalTasks, runningTasks, last

vars == <<cpuCount, fscale, pageSizeKB, settings, cpus, mem, processes, totalTasks, runningTasks, last>>

(***************************************************************************)
(* Bounds of the model.                                                    *)
(***************************************************************************)
\* A core's five cumulative tick counters sum to at most MaxTick.
MaxTick == 2
\* Longest thread list kvm_getlwps returns.
MaxLwps == 2
\* Longest argument vector kvm_getargv2 returns.
MaxArgs == 2
\* The task counters are followed up to MaxTasks.
MaxTasks == 3
\* Largest raw CPU fraction p_pctcpu of the model.
MaxPct == 9
\* Width of the model's unsigned long long: values are taken modulo 2^WordBits.
\* The tick and page counts of the model stay far below it, as the kernel's
\* counters stay far below 2^64.
WordBits == 12

(***************************************************************************)
(* Program constants.                                                      *)
(***************************************************************************)
\* sys/sched.h: CP_USER 0, CP_NICE 1, CP_SYS 2, CP_INTR 3, CP_IDLE 4.
CPUSTATES == 5
CP_USER == 0
CP_NICE == 1
CP_SYS == 2
CP_INTR == 3
CP_IDLE == 4
\* sys/param.h: the priority baseline.
PZERO == 22

ULLONG == 2 ^ WordBits

\* unsigned long long arithmetic wraps.
ToULL(x) == x % ULLONG

MINIMUM(a, b) == IF a < b THEN a ELSE b

RECURSIVE SumTo(_, _)
\* f[0] + ... + f[n-1], for a function on 0..n-1.
SumTo(f, n) == IF n = 0 THEN 0 ELSE SumTo(f, n - 1) + f[n - 1]

(***************************************************************************)
(* CPU counters.                                                           *)
(***************************************************************************)
\* ProcessList_new: xCalloc zeroes a slot, then totalTime and totalPeriod are 1.
NewCPUData == [totalTime |-> 1, userTime |-> 0, niceTime |-> 0, sysTime |-> 0, sysAllTime |-> 0, intrTime |-> 0, idleTime |-> 0, totalPeriod |-> 1, userPeriod |-> 0, nicePeriod |-> 0, sysPeriod |-> 0, sysAllPeriod |-> 0, intrPeriod |-> 0, idlePeriod |-> 0]

\* A faulty variant: a plain unsigned subtraction, which wraps below zero.
saturatingSub_wrapping(a, b) == ToULL(a - b)

saturatingSub(a, b) == IF a > b THEN a - b ELSE 0

RECURSIVE SumULL(_, _)
\* totalTime += times[i], for i below n, in unsigned long long.
SumULL(times, n) == IF n = 0 THEN 0 ELSE ToULL(SumULL(times, n - 1) + times[n - 1])

\* A faulty variant: the total period taken as the sum of the five periods.
kernelCPUTimesToHtop_sumOfPeriods(times, cpu) ==
    LET totalTime == SumULL(times, CPUSTATES)
        sysAllTime == ToULL(times[CP_INTR] + times[CP_SYS])
        u == saturatingSub(times[CP_USER], cpu.userTime)
        n == saturatingSub(times[CP_NICE], cpu.niceTime)
        s == saturatingSub(times[CP_SYS], cpu.sysTime)
        i == saturatingSub(times[CP_INTR], cpu.intrTime)
        d == saturatingSub(times[CP_IDLE], cpu.idleTime)
    IN  [totalPeriod |-> ToULL(u + n + s + i + d), userPeriod |-> u, nicePeriod |-> n, sysPeriod |-> s, sysAllPeriod |-> saturatingSub(sysAllTime, cpu.sysAllTime), intrPeriod |-> i, idlePeriod |-> d, totalTime |-> totalTime, userTime |-> times[CP_USER], niceTime |-> times[CP_NICE], sysTime |-> times[CP_SYS], sysAllTime |-> sysAllTime, intrTime |-> times[CP_INTR], idleTime |-> times[CP_IDLE]]

\* The new value of a slot, from the five cumulative counters `times`.
kernelCPUTimesToHtop(times, cpu) ==
    LET totalTime == SumULL(times, CPUSTATES)
        sysAllTime == ToULL(times[CP_INTR] + times[CP_SYS])
    IN  [totalPeriod |-> saturatingSub(totalTime, cpu.totalTime),
         userPeriod |-> saturatingSub(times[CP_USER], cpu.userTime),
         nicePeriod |-> saturatingSub(times[CP_NICE], cpu.niceTime),
         sysPeriod |-> saturatingSub(times[CP_SYS], cpu.sysTime),
         sysAllPeriod |-> saturatingSub(sysAllTime, cpu.sysAllTime),
         intrPeriod |-> saturatingSub(times[CP_INTR], cpu.intrTime),
         idlePeriod |-> saturatingSub(times[CP_IDLE], cpu.idleTime),
         totalTime |-> totalTime,
         userTime |-> times[CP_USER],
         niceTime |-> times[CP_NICE],
         sysTime |-> times[CP_SYS],
         sysAllTime |-> sysAllTime,
         intrTime |-> times[CP_INTR],
         idleTime |-> times[CP_IDLE]]

RECURSIVE AvgSum(_, _, _)
\* avg[st] after the first n cores: the sum of the slots' stored counters.
AvgSum(slots, st, n) ==
    IF n = 0 THEN 0
    ELSE LET cpu == slots[n]
             t == CASE st = CP_USER -> cpu.userTime
                    [] st = CP_NICE -> cpu.niceTime
                    [] st = CP_SYS -> cpu.sysTime
                    [] st = CP_INTR -> cpu.intrTime
                    [] OTHER -> cpu.idleTime
         IN  ToULL(AvgSum(slots, st, n - 1) + t)

\* A faulty variant: the aggregate slot as the average of the real cores' periods.
NetBSDProcessList_scanCPUTime_diffThenAverage(old, kernelTimes, n) ==
    LET real == [i \in 1..n |-> kernelCPUTimesToHtop(kernelTimes[i - 1], old[i])]
        avg == [st \in 0..(CPUSTATES - 1) |-> AvgSum(real, st, n) \div n]
        agg == kernelCPUTimesToHtop(avg, old[0])
        P(f) == SumTo([i \in 0..(n - 1) |-> f[i + 1]], n) \div n
    IN  [i \in 0..n |-> IF i = 0 THEN [agg EXCEPT !.userPeriod = P([j \in 1..n |-> real[j].userPeriod]), !.nicePeriod = P([j \in 1..n |-> real[j].nicePeriod]), !.sysPeriod = P([j \in 1..n |-> real[j].sysPeriod]), !.intrPeriod = P([j \in 1..n |-> real[j].intrPeriod]), !.idlePeriod = P([j \in 1..n |-> real[j].idlePeriod])] ELSE real[i]]

\* The slots after a cycle: kernelTimes[i] are core i's counters, slot i + 1 is
\* core i and slot 0 the aggregate, fed the truncated averages.
NetBSDProcessList_scanCPUTime(old, kernelTimes, n) ==
    LET real == [i \in 1..n |-> kernelCPUTimesToHtop(kernelTimes[i - 1], old[i])]
        avg == [st \in 0..(CPUSTATES - 1) |-> AvgSum(real, st, n) \div n]
    IN  [i \in 0..n |-> IF i = 0 THEN kernelCPUTimesToHtop(avg, old[0]) ELSE real[i]]

(***************************************************************************)
(* Memory snapshot.                                                        *)
(***************************************************************************)
\* ProcessList_init leaves the snapshot zeroed.
NewMem == [totalMem |-> 0, buffersMem |-> 0, cachedMem |-> 0, usedMem |-> 0, totalSwap |-> 0, usedSwap |-> 0]

\* The snapshot from the kernel's page counters; nothing of the old one is kept.
NetBSDProcessList_scanMemoryInfo(uvmexp, psKB, old) ==
    LET buffersMem == ToULL(uvmexp.filepages * psKB)
        cachedMem == ToULL((uvmexp.anonpages + uvmexp.filepages + uvmexp.execpages) * psKB)
    IN  [totalMem |-> ToULL(uvmexp.npages * psKB),
         buffersMem |-> buffersMem,
         cachedMem |-> cachedMem,
         usedMem |-> ToULL((uvmexp.npages - uvmexp.free - uvmexp.paging) * psKB + buffersMem + cachedMem),
         totalSwap |-> ToULL(uvmexp.swpages * psKB),
         usedSwap |-> ToULL(uvmexp.swpginuse * psKB)]

(***************************************************************************)
(* Display names.  A C string is a sequence of one-character strings.      *)
(***************************************************************************)
\* strlcat(dst, src, size): appends what fits in a buffer of `size` bytes, the
\* NUL included, and returns the length it tried to create.
strlcat(dst, src, size) ==
    IF Len(dst) >= size THEN [s |-> dst, n |-> size + Len(src)]
    ELSE [s |-> dst \o SubSeq(src, 1, MINIMUM(Len(src), size - Len(dst) - 1)), n |-> Len(dst) + Len(src)]

RECURSIVE ArgvLen(_, _)
\* len += strlen(arg[i]) + 1, over the first n arguments.
ArgvLen(arg, n) == IF n = 0 THEN 0 ELSE ArgvLen(arg, n - 1) + Len(arg[n]) + 1

RECURSIVE ArgvCat(_, _, _, _, _)
\* The concatenation loop from argument i on: s is the buffer, b the boundary.
ArgvCat(arg, i, s, b, len) ==
    IF i > Len(arg) THEN [comm |-> s, basenameEnd |-> b]
    ELSE LET r == strlcat(s, arg[i], len)
             b2 == IF i = 1 THEN MINIMUM(r.n, len - 1) ELSE b
         IN  ArgvCat(arg, i + 1, strlcat(r.s, <<" ">>, len).s, b2, len)

\* A faulty variant: the buffer has room for the trailing space too.
NetBSDProcessList_readProcessName_roomy(argv, p_comm, mallocOk) ==
    IF ~argv.ok \/ argv.arg = <<>> THEN [comm |-> p_comm, basenameEnd |-> Len(p_comm)]
    ELSE IF ~mallocOk THEN [comm |-> p_comm, basenameEnd |-> Len(p_comm)]
    ELSE ArgvCat(argv.arg, 1, <<>>, 0, ArgvLen(argv.arg, Len(argv.arg)) + 1)

\* argv.ok: kvm_getargv2 returned a vector; argv.arg: its arguments before the
\* NULL; mallocOk: malloc(len) succeeded.
NetBSDProcessList_readProcessName(argv, p_comm, mallocOk) ==
    IF ~argv.ok \/ argv.arg = <<>> THEN [comm |-> p_comm, basenameEnd |-> Len(p_comm)]
    ELSE IF ~mallocOk THEN [comm |-> p_comm, basenameEnd |-> Len(p_comm)]
    ELSE ArgvCat(argv.arg, 1, <<>>, 0, ArgvLen(argv.arg, Len(argv.arg)))

(***************************************************************************)
(* CPU percent.  A double is a fraction <<n, d>> with d > 0.               *)
(***************************************************************************)
FracLess(x, y) == x[1] * y[2] < y[1] * x[2]

\* 100.0 * p_pctcpu / fscale, and 0.0 when fscale is 0.
getpcpu(p_pctcpu, fs) ==
    IF fs = 0 THEN <<0, 1>>
    ELSE IF fs < 0 THEN <<0 - 100 * p_pctcpu, 0 - fs>>
    ELSE <<100 * p_pctcpu, fs>>

\* A faulty variant: only the lower limit is applied.
CLAMP_lowOnly(x, low, high) == IF FracLess(x, low) THEN low ELSE x

\* Macros.h: x > high ? high : MAXIMUM(x, low).
CLAMP(x, low, high) == IF FracLess(high, x) THEN high ELSE IF FracLess(x, low) THEN low ELSE x

(***************************************************************************)
(* The state code.                                                         *)
(***************************************************************************)
RECURSIVE LwpLoop(_, _, _)
\* The loop over the threads from thread j on; `state` is proc->state so far.
LwpLoop(state, klwps, j) ==
    IF j > Len(klwps.l) THEN state
    ELSE IF ~klwps.ok THEN LwpLoop(state, klwps, j + 1)
    ELSE LET st == CASE klwps.l[j] = "LSONPROC" -> "P"
                     [] klwps.l[j] = "LSRUN" -> "R"
                     [] klwps.l[j] = "LSSLEEP" -> "S"
                     [] klwps.l[j] = "LSSTOP" -> "T"
                     [] OTHER -> "?"
         IN  IF st # "?" THEN st ELSE LwpLoop(st, klwps, j + 1)

\* The switch on p_realstat; `state` is the code the record holds before it.
ProcState(state, p_realstat, klwps) ==
    CASE p_realstat = "SIDL" -> "I"
      [] p_realstat = "SACTIVE" -> LwpLoop(state, klwps, 1)
      [] p_realstat = "SSTOP" -> "T"
      [] p_realstat = "SZOMB" -> "Z"
      [] p_realstat = "SDEAD" -> "D"
      [] OTHER -> "?"

(***************************************************************************)
(* The process table.                                                      *)
(***************************************************************************)
\* The constructor's record: zeroed, shown, not updated, no name yet.
NewProcess(pid) == [pid |-> pid, show |-> TRUE, ppid |-> 0, tpgid |-> 0, tgid |-> 0, session |-> 0, tty_nr |-> 0, pgrp |-> 0, st_uid |-> 0, starttime_ctime |-> 0, user |-> 0, comm |-> <<>>, basenameOffset |-> 0 - 1, m_virt |-> 0, m_resident |-> 0, percent_mem |-> <<0, 1>>, percent_cpu |-> <<0, 1>>, nlwp |-> 0, nice |-> 0, time |-> 0, priority |-> 0, state |-> "NUL", updated |-> FALSE]

\* The identity fields and the name of a record seen for the first time.
FirstObservation(proc, kproc) ==
    LET name == NetBSDProcessList_readProcessName(kproc.argv, kproc.p_comm, kproc.mallocOk)
    IN  [proc EXCEPT !.ppid = kproc.p_ppid, !.tpgid = kproc.p_tpgid, !.tgid = kproc.p_pid, !.session = kproc.p_sid, !.tty_nr = kproc.p_tdev, !.pgrp = kproc.p__pgid, !.st_uid = kproc.p_uid, !.starttime_ctime = kproc.p_ustart_sec, !.user = kproc.p_uid, !.comm = name.comm, !.basenameOffset = name.basenameEnd]

\* The name of a record seen before: read again only when the setting asks.
LaterObservation(proc, kproc, updateProcessNames) ==
    LET name == NetBSDProcessList_readProcessName(kproc.argv, kproc.p_comm, kproc.mallocOk)
    IN  IF updateProcessNames THEN [proc EXCEPT !.comm = name.comm, !.basenameOffset = name.basenameEnd] ELSE proc

\* The fields every cycle refreshes.
RefreshVolatile(proc, kproc, psKB, totalMem, fs, ncpu) ==
    [proc EXCEPT !.m_virt = kproc.p_vm_vsize,
                 !.m_resident = kproc.p_vm_rssize,
                 !.percent_mem = <<kproc.p_vm_rssize * psKB * 100, totalMem>>,
                 !.percent_cpu = CLAMP(getpcpu(kproc.p_pctcpu, fs), <<0, 1>>, <<ncpu * 100, 1>>),
                 !.nlwp = kproc.p_nlwps,
                 !.nice = kproc.p_nice - 20,
                 !.time = 100 * (kproc.p_rtime_sec + ((kproc.p_rtime_usec + 500000) \div 1000000)),
                 !.priority = kproc.p_priority - PZERO]

\* A faulty variant: a record seen before is rebuilt from the kernel record.
ScanOne_reidentify(tbl, kproc, env) ==
    LET proc0 == NewProcess(kproc.p_pid)
        proc1 == [proc0 EXCEPT !.show = ~((env.settings.hideKernelThreads /\ kproc.isKernelThread) \/ (env.settings.hideUserlandThreads /\ kproc.isUserlandThread))]
        proc3 == RefreshVolatile(FirstObservation(proc1, kproc), kproc, env.pageSizeKB, env.totalMem, env.fscale, env.cpuCount)
        proc4 == [proc3 EXCEPT !.state = ProcState(proc3.state, kproc.p_realstat, kproc.klwps)]
    IN  [processes |-> [p \in (DOMAIN tbl.processes) \cup {kproc.p_pid} |-> IF p = kproc.p_pid THEN [proc4 EXCEPT !.updated = TRUE] ELSE tbl.processes[p]],
         totalTasks |-> tbl.totalTasks + 1,
         runningTasks |-> IF proc4.state = "P" THEN tbl.runningTasks + 1 ELSE tbl.runningTasks]

\* A faulty variant: every record not updated in this step is dropped from the table.
ScanOne_evicting(tbl, kproc, env) ==
    LET preExisting == kproc.p_pid \in DOMAIN tbl.processes
        proc0 == IF preExisting THEN tbl.processes[kproc.p_pid] ELSE NewProcess(kproc.p_pid)
        proc1 == [proc0 EXCEPT !.show = ~((env.settings.hideKernelThreads /\ kproc.isKernelThread) \/ (env.settings.hideUserlandThreads /\ kproc.isUserlandThread))]
        proc2 == IF ~preExisting THEN FirstObservation(proc1, kproc) ELSE LaterObservation(proc1, kproc, env.settings.updateProcessNames)
        proc3 == RefreshVolatile(proc2, kproc, env.pageSizeKB, env.totalMem, env.fscale, env.cpuCount)
        proc4 == [proc3 EXCEPT !.state = ProcState(proc3.state, kproc.p_realstat, kproc.klwps)]
        keep == {p \in DOMAIN tbl.processes : tbl.processes[p].updated}
    IN  [processes |-> [p \in keep \cup {kproc.p_pid} |-> IF p = kproc.p_pid THEN [proc4 EXCEPT !.updated = TRUE] ELSE tbl.processes[p]],
         totalTasks |-> tbl.totalTasks + 1,
         runningTasks |-> IF proc4.state = "P" THEN tbl.runningTasks + 1 ELSE tbl.runningTasks]

\* One iteration of the loop over the kernel's records: tbl is the table and
\* the two counters, env what ProcessList_new and this cycle's memory scan set.
ScanOne(tbl, kproc, env) ==
    LET preExisting == kproc.p_pid \in DOMAIN tbl.processes
        proc0 == IF preExisting THEN tbl.processes[kproc.p_pid] ELSE NewProcess(kproc.p_pid)
        proc1 == [proc0 EXCEPT !.show = ~((env.settings.hideKernelThreads /\ kproc.isKernelThread) \/ (env.settings.hideUserlandThreads /\ kproc.isUserlandThread))]
        proc2 == IF ~preExisting THEN FirstObservation(proc1, kproc) ELSE LaterObservation(proc1, kproc, env.settings.updateProcessNames)
        proc3 == RefreshVolatile(proc2, kproc, env.pageSizeKB, env.totalMem, env.fscale, env.cpuCount)
        proc4 == [proc3 EXCEPT !.state = ProcState(proc3.state, kproc.p_realstat, kproc.klwps)]
    IN  [processes |-> [p \in (DOMAIN tbl.processes) \cup {kproc.p_pid} |-> IF p = kproc.p_pid THEN [proc4 EXCEPT !.updated = TRUE] ELSE tbl.processes[p]],
         totalTasks |-> tbl.totalTasks + 1,
         runningTasks |-> IF proc4.state = "P" THEN tbl.runningTasks + 1 ELSE tbl.runningTasks]

RECURSIVE NetBSDProcessList_scanProcs(_, _, _, _)
\* The loop from record i on.
NetBSDProcessList_scanProcs(tbl, kprocs, i, env) ==
    IF i > Len(kprocs) THEN tbl
    ELSE NetBSDProcessList_scanProcs(ScanOne(tbl, kprocs[i], env), kprocs, i + 1, env)

(***************************************************************************)
(* The sampler.                                                            *)
(***************************************************************************)
\* The value of `last` after a step that is no cycle: `last` records the step
\* taken last and, for a cycle, what the kernel answered in it.
NoCycle(op) == [op |-> op, pause |-> FALSE, uvmexp |-> <<>>, kernelTimes |-> <<>>, kprocs |-> <<>>]

\* ProcessList_new, given what hw.ncpu, kern.fscale and sysconf answer and the
\* settings the caller holds; a core count below 1 is taken as 1.
ProcessList_new(ncpu, fs, psKB, st) ==
    /\ cpuCount = (IF ncpu < 1 THEN 1 ELSE ncpu)
    /\ fscale = fs
    /\ pageSizeKB = psKB
    /\ settings = st
    /\ cpus = [i \in 0..cpuCount |-> NewCPUData]
    /\ mem = NewMem
    /\ processes = <<>>
    /\ totalTasks = 0
    /\ runningTasks = 0
    /\ last = NoCycle("new")

\* A faulty variant: the pause flag is ignored.
ScanProcsUnlessPaused_always(pauseProcessUpdate, tbl, kprocs, env) == NetBSDProcessList_scanProcs(tbl, kprocs, 1, env)

\* in pause mode only gather global data for meters
ScanProcsUnlessPaused(pauseProcessUpdate, tbl, kprocs, env) ==
    IF pauseProcessUpdate THEN tbl ELSE NetBSDProcessList_scanProcs(tbl, kprocs, 1, env)

\* One cycle.  uvmexp, kernelTimes and kprocs are what the kernel answers in it;
\* kprocs is not asked for in pause mode.
ProcessList_goThroughEntries(pauseProcessUpdate, uvmexp, kernelTimes, kprocs) ==
    LET mem2 == NetBSDProcessList_scanMemoryInfo(uvmexp, pageSizeKB, mem)
        env == [settings |-> settings, pageSizeKB |-> pageSizeKB, totalMem |-> mem2.totalMem, fscale |-> fscale, cpuCount |-> cpuCount]
        tbl == [processes |-> processes, totalTasks |-> totalTasks, runningTasks |-> runningTasks]
        tbl2 == ScanProcsUnlessPaused(pauseProcessUpdate, tbl, kprocs, env)
    IN  /\ tbl2.totalTasks <= MaxTasks    \* the model follows the counters no further
        /\ mem' = mem2
        /\ cpus' = NetBSDProcessList_scanCPUTime(cpus, kernelTimes, cpuCount)
        /\ processes' = tbl2.processes
        /\ totalTasks' = tbl2.totalTasks
        /\ runningTasks' = tbl2.runningTasks
        /\ last' = [op |-> "cycle", pause |-> pauseProcessUpdate, uvmexp |-> uvmexp, kernelTimes |-> kernelTimes, kprocs |-> IF pauseProcessUpdate THEN <<>> ELSE kprocs]
        /\ UNCHANGED <<cpuCount, fscale, pageSizeKB, settings>>

\* The caller, before a cycle that is not paused: every record is marked not
\* updated and the two task counters start again from 0.
ProcessList_scanBegin ==
    /\ processes' = [p \in DOMAIN processes |-> [processes[p] EXCEPT !.updated = FALSE]]
    /\ totalTasks' = 0
    /\ runningTasks' = 0
    /\ last' = NoCycle("scanBegin")
    /\ UNCHANGED <<cpuCount, fscale, pageSizeKB, settings, cpus, mem>>

\* The external table evicts a record the last cycle did not update.
ProcessList_remove(pid) ==
    /\ pid \in DOMAIN processes
    /\ ~processes[pid].updated
    /\ processes' = [p \in (DOMAIN processes) \ {pid} |-> processes[p]]
    /\ last' = NoCycle("remove")
    /\ UNCHANGED <<cpuCount, fscale, pageSizeKB, settings, cpus, mem, totalTasks, runningTasks>>

(***************************************************************************)
(* The kernel's answers.                                                   *)
(***************************************************************************)
\* The settings with names read once.
Settings0 == [hideKernelThreads |-> FALSE, hideUserlandThreads |-> FALSE, updateProcessNames |-> FALSE]

\* A core's five counters, summing to at most MaxTick.
TickVecs == {t \in [0..(CPUSTATES - 1) -> 0..MaxTick] : SumTo(t, CPUSTATES) <= MaxTick}

\* A core that spent u ticks in user mode and none elsewhere.
UserOnly(u) == [st \in 0..(CPUSTATES - 1) |-> IF st = CP_USER THEN u ELSE 0]

\* vm.uvmexp2 page counters: free and paging pages are among the npages.
Uvmexp(np, free, file) == [npages |-> np, free |-> free, paging |-> 0, filepages |-> file, anonpages |-> 1, execpages |-> 0, swpages |-> 2, swpginuse |-> free]

Uvmexp0 == Uvmexp(4, 1, 1)

\* A kernel record of process pid.  id varies the identity fields, vol the
\* volatile ones; klwps and argv are what kvm_getlwps and kvm_getargv2 answer
\* for it (ok: not NULL), mallocOk whether malloc does; thr is what
\* Process_isKernelThread and Process_isUserlandThread say of the record.
KProc(pid, id, vol, pct, stat, klwps, argv, mallocOk, thr) ==
    [p_pid |-> pid, p_ppid |-> id, p_tpgid |-> 10 + id, p_sid |-> 20 + id, p_tdev |-> 30 + id, p__pgid |-> 40 + id, p_uid |-> 50 + id, p_ustart_sec |-> 60 + id,
     p_comm |-> <<"s", "h">>, argv |-> argv, mallocOk |-> mallocOk,
     p_vm_vsize |-> 2 + vol, p_vm_rssize |-> 1 + vol, p_pctcpu |-> pct, p_nlwps |-> 1 + vol, p_nice |-> 20 + vol, p_rtime_sec |-> 10 * vol, p_rtime_usec |-> 600000 * vol, p_priority |-> 43 - vol,
     p_realstat |-> stat, klwps |-> klwps, isKernelThread |-> thr, isUserlandThread |-> FALSE]

NoLwps == [ok |-> FALSE, l |-> <<>>]

NoArgv == [ok |-> FALSE, arg |-> <<>>]

RECURSIVE SeqsUpTo(_, _)
\* The sequences over S of length at most n.
SeqsUpTo(S, n) == IF n = 0 THEN {<<>>} ELSE LET T == SeqsUpTo(S, n - 1) IN T \cup {Append(t, x) : t \in T, x \in S}

RECURSIVE Enumerations(_, _)
\* What kvm_getproc2 may answer: at most n of the records R, in any order, no
\* process id twice.
Enumerations(R, n) ==
    IF n = 0 THEN {<<>>}
    ELSE LET T == Enumerations(R, n - 1)
         IN  T \cup UNION {{Append(t, r) : r \in {x \in R : \A j \in 1..Len(t) : t[j].p_pid # x.p_pid}} : t \in T}

\* The threads of a running process with one thread on a processor.
OnProc == [ok |-> TRUE, l |-> <<"LSONPROC">>]

(***************************************************************************)
(* SpecCPU: cycles over the tick vectors, on one and two cores; a second   *)
(* core is idle or has one user tick.                                      *)
(***************************************************************************)
InitCPU == \E n \in 1..2 : ProcessList_new(n, 1, 4, Settings0)

CycleCPU == \E t0 \in TickVecs, rest \in [1..(cpuCount - 1) -> {UserOnly(0), UserOnly(1)}] : ProcessList_goThroughEntries(TRUE, Uvmexp0, [i \in 0..(cpuCount - 1) |-> IF i = 0 THEN t0 ELSE rest[i]], <<>>)

NextCPU == CycleCPU

SpecCPU == InitCPU /\ [][NextCPU]_vars

(***************************************************************************)
(* SpecAvg: three cores with user ticks of 100 to 400, and four cores with *)
(* user ticks of 100 or 250 each or of 100, 200, 300 and 400.              *)
(***************************************************************************)
InitAvg == \E n \in 3..4 : ProcessList_new(n, 1, 4, Settings0)

AvgTimes(n) ==
    IF n = 3 THEN [0..2 -> {UserOnly(u) : u \in {100, 200, 300, 400}}]
    ELSE [0..3 -> {UserOnly(u) : u \in {100, 250}}] \cup {[i \in 0..3 |-> UserOnly(100 * (i + 1))]}

CycleAvg == \E t \in AvgTimes(cpuCount) : ProcessList_goThroughEntries(TRUE, Uvmexp0, t, <<>>)

NextAvg == CycleAvg

SpecAvg == InitAvg /\ [][NextAvg]_vars

(***************************************************************************)
(* SpecPause: paused and unpaused cycles over two processes, two memory    *)
(* answers and two tick vectors, with the caller's housekeeping between.   *)
(***************************************************************************)
InitPause == ProcessList_new(1, 1, 4, Settings0)

PauseRecs == {KProc(pid, 0, 0, 1, "SACTIVE", OnProc, NoArgv, TRUE, FALSE) : pid \in {1, 2}}

CyclePause == \E pause \in BOOLEAN, u \in {Uvmexp0, Uvmexp(8, 2, 3)}, t \in [0..0 -> {UserOnly(0), UserOnly(1)}], k \in Enumerations(PauseRecs, 2) : ProcessList_goThroughEntries(pause, u, t, k)

Housekeeping == ProcessList_scanBegin \/ \E pid \in {1, 2} : ProcessList_remove(pid)

NextPause == CyclePause \/ Housekeeping

SpecPause == InitPause /\ [][NextPause]_vars

(***************************************************************************)
(* SpecProc: unpaused cycles over two processes whose kernel records vary  *)
(* in their identity and volatile fields.                                  *)
(***************************************************************************)
InitProc == \E upd \in BOOLEAN : ProcessList_new(1, 4, 4, [Settings0 EXCEPT !.updateProcessNames = upd, !.hideKernelThreads = TRUE])

ProcRecs == {KProc(1, id, vol, 1 + vol, "SACTIVE", OnProc, NoArgv, TRUE, vol = 1) : id \in {0, 1}, vol \in {0, 1}} \cup {KProc(2, 0, vol, 1 + vol, "SSTOP", NoLwps, NoArgv, TRUE, FALSE) : vol \in {0, 1}}

CycleProc == \E k \in Enumerations(ProcRecs, 2) : ProcessList_goThroughEntries(FALSE, Uvmexp0, [i \in 0..0 |-> UserOnly(0)], k)

NextProc == CycleProc \/ Housekeeping

SpecProc == InitProc /\ [][NextProc]_vars

(***************************************************************************)
(* SpecState: unpaused cycles over one process in every coarse state and   *)
(* with every thread list of at most MaxLwps threads.                      *)
(***************************************************************************)
InitState == ProcessList_new(1, 1, 4, Settings0)

LStats == {"LSIDL", "LSRUN", "LSSLEEP", "LSSTOP", "LSONPROC"}

StateRecs == {KProc(1, 0, 0, 1, stat, NoLwps, NoArgv, TRUE, FALSE) : stat \in {"SIDL", "SACTIVE", "SDYING", "SSTOP", "SZOMB", "SDEAD"}} \cup {KProc(1, 0, 0, 1, "SACTIVE", [ok |-> TRUE, l |-> l], NoArgv, TRUE, FALSE) : l \in SeqsUpTo(LStats, MaxLwps)}

CycleState == \E k \in Enumerations(StateRecs, 1) : ProcessList_goThroughEntries(FALSE, Uvmexp0, [i \in 0..0 |-> UserOnly(0)], k)

NextState == CycleState \/ ProcessList_scanBegin \/ ProcessList_remove(1)

SpecState == InitState /\ [][NextState]_vars

(***************************************************************************)
(* SpecName: unpaused cycles over one process with every argument vector   *)
(* of at most MaxArgs arguments, and with "vim -R file.txt".               *)
(***************************************************************************)
InitName == \E upd \in BOOLEAN : ProcessList_new(1, 1, 4, [Settings0 EXCEPT !.updateProcessNames = upd])

ArgStrings == {<<>>, <<"v", "i", "m">>}

ExampleArgv == << <<"v", "i", "m">>, <<"-", "R">>, <<"f", "i", "l", "e", ".", "t", "x", "t">> >>

ArgVecs == {NoArgv} \cup {[ok |-> TRUE, arg |-> a] : a \in SeqsUpTo(ArgStrings, MaxArgs) \cup {ExampleArgv}}

NameRecs == {KProc(1, 0, 0, 1, "SSTOP", NoLwps, argv, m, FALSE) : argv \in ArgVecs, m \in BOOLEAN}

CycleName == \E k \in Enumerations(NameRecs, 1) : ProcessList_goThroughEntries(FALSE, Uvmexp0, [i \in 0..0 |-> UserOnly(0)], k)

NextName == CycleName \/ ProcessList_scanBegin \/ ProcessList_remove(1)

SpecName == InitName /\ [][NextName]_vars

(***************************************************************************)
(* SpecPcpu: unpaused cycles over one process with raw CPU fractions up to *)
(* MaxPct, for scale factors below, at and above 0.                        *)
(***************************************************************************)
InitPcpu == \E n \in 1..2, fs \in {0 - 4, 0, 1, 4} : ProcessList_new(n, fs, 4, Settings0)

PcpuRecs == {KProc(1, 0, 0, pct, "SSTOP", NoLwps, NoArgv, TRUE, FALSE) : pct \in 0..MaxPct}

CyclePcpu == \E k \in Enumerations(PcpuRecs, 1) : ProcessList_goThroughEntries(FALSE, Uvmexp0, [i \in 0..(cpuCount - 1) |-> UserOnly(0)], k)

NextPcpu == CyclePcpu \/ ProcessList_scanBegin \/ ProcessList_remove(1)

SpecPcpu == InitPcpu /\ [][NextPcpu]_vars

(***************************************************************************)
(* Properties.                                                             *)
(***************************************************************************)
Max0(x) == IF x > 0 THEN x ELSE 0

\* The last step was a cycle, and it was a cycle not paused.
CycleDone == last.op = "cycle"

ScanDone == last.op = "cycle" /\ ~last.pause

\* The process ids of an enumeration.
PidsOf(kprocs) == {kprocs[j].p_pid : j \in 1..Len(kprocs)}

\* The five per-state counters and periods of a slot.
TimesOf(cpu) == <<cpu.userTime, cpu.niceTime, cpu.sysTime, cpu.intrTime, cpu.idleTime>>

PeriodsOf(cpu) == <<cpu.userPeriod, cpu.nicePeriod, cpu.sysPeriod, cpu.intrPeriod, cpu.idlePeriod>>

Sum5(q) == q[1] + q[2] + q[3] + q[4] + q[5]

\* C1: in every cycle and for every slot, each of the seven periods is >= 0,
\* and each per-state period is max(new - previous, 0), where new is the value
\* the cycle stores (for a real core, the kernel's counter) and previous the
\* value the preceding cycle stored: a smaller new value gives 0.
C1_PeriodsSaturate ==
    [][(last'.op = "cycle") =>
        \A i \in 0..cpuCount :
            /\ \A st \in 1..5 : PeriodsOf(cpus'[i])[st] = Max0(TimesOf(cpus'[i])[st] - TimesOf(cpus[i])[st])
            /\ \A st \in 1..5 : PeriodsOf(cpus'[i])[st] >= 0
            /\ cpus'[i].sysAllPeriod >= 0
            /\ cpus'[i].totalPeriod >= 0
            /\ i >= 1 => \A st \in 1..5 : TimesOf(cpus'[i])[st] = last'.kernelTimes[i - 1][st - 1]]_vars

\* A cycle in which a counter of a slot went down: its total did not grow from
\* a previous total of at least 2, yet its user ticks did.
C1_Witness == CycleDone /\ \E i \in 0..cpuCount : cpus[i].totalTime >= 2 /\ cpus[i].totalPeriod = 0 /\ cpus[i].userPeriod > 0

\* The truncated average, over the real cores, of the counter in place st.
AvgOf(slots, n, st) == SumTo([i \in 0..(n - 1) |-> TimesOf(slots[i + 1])[st]], n) \div n

\* The truncated average, over the real cores, of the period in place st.
AvgPeriodOf(slots, n, st) == SumTo([i \in 0..(n - 1) |-> PeriodsOf(slots[i + 1])[st]], n) \div n

\* C2: in every cycle the aggregate slot 0 holds, for each of the five states,
\* the truncated average of the real cores' new counters, and its period is
\* max(that average - the average the previous cycle stored, 0).
C2_AverageThenDiff ==
    [][(last'.op = "cycle") =>
        \A st \in 1..5 :
            /\ TimesOf(cpus'[0])[st] = SumTo([i \in 0..(cpuCount - 1) |-> last'.kernelTimes[i][st - 1]], cpuCount) \div cpuCount
            /\ PeriodsOf(cpus'[0])[st] = Max0(AvgOf(cpus', cpuCount, st) - TimesOf(cpus[0])[st])]_vars

\* Four cores at 100, 200, 300 and 400 user ticks: the aggregate holds 250, and
\* its user period is not the average of the four cores' user periods.
C2_Witness ==
    /\ CycleDone /\ cpuCount = 4
    /\ \A i \in 1..4 : cpus[i].userTime = 100 * i
    /\ cpus[0].userTime = 250
    /\ cpus[0].userPeriod # AvgPeriodOf(cpus, 4, 1)

\* C8 as claimed: after every cycle, the first included, a slot's total period
\* is the sum of its five per-state periods.
C8_TotalIsSumOfPeriods == CycleDone => \A i \in 0..cpuCount : cpus[i].totalPeriod = Sum5(PeriodsOf(cpus[i]))

\* C8 as amended: in every cycle a slot's total period is max(new total -
\* previous total, 0), the new total being the sum of the five new counters and
\* the previous total the stored one (1 at sampler start); it is the sum of
\* the five periods when the previous total is the sum of the previous
\* counters (so not in the first cycle) and no counter of the slot went down.
C8_TotalIsDiffOfTotals ==
    [][(last'.op = "cycle") =>
        \A i \in 0..cpuCount :
            /\ cpus'[i].totalTime = Sum5(TimesOf(cpus'[i]))
            /\ cpus'[i].totalPeriod = Max0(Sum5(TimesOf(cpus'[i])) - cpus[i].totalTime)
            /\ (cpus[i].totalTime = Sum5(TimesOf(cpus[i])) /\ \A st \in 1..5 : TimesOf(cpus'[i])[st] >= TimesOf(cpus[i])[st])
                  => cpus'[i].totalPeriod = Sum5(PeriodsOf(cpus'[i]))]_vars

\* A later cycle in which ticks passed and no counter went down.
C8_Witness == CycleDone /\ \E i \in 0..cpuCount : cpus[i].totalPeriod > 0 /\ cpus[i].totalPeriod = Sum5(PeriodsOf(cpus[i]))

\* The code of a thread state, "?" when it has none.
ThreadCode(l_stat) == CASE l_stat = "LSONPROC" -> "P" [] l_stat = "LSRUN" -> "R" [] l_stat = "LSSLEEP" -> "S" [] l_stat = "LSSTOP" -> "T" [] OTHER -> "?"

\* The classifier of the specification: the coarse state decides, and for an
\* active process the first thread that has a code; "?" when there is none.
ClassifierCode(kproc) ==
    LET l == IF kproc.klwps.ok THEN kproc.klwps.l ELSE <<>>
        hits == {j \in 1..Len(l) : ThreadCode(l[j]) # "?"}
    IN  CASE kproc.p_realstat = "SIDL" -> "I"
          [] kproc.p_realstat = "SSTOP" -> "T"
          [] kproc.p_realstat = "SZOMB" -> "Z"
          [] kproc.p_realstat = "SDEAD" -> "D"
          [] kproc.p_realstat = "SACTIVE" -> (IF hits = {} THEN "?" ELSE ThreadCode(l[CHOOSE j \in hits : \A h \in hits : j <= h]))
          [] OTHER -> "?"

\* C3 as claimed, of the records the table holds before the cycle: after a
\* cycle that is not paused, an enumerated record holds the code the classifier
\* gives this cycle's coarse state and threads, "?" for an active process with
\* no matching thread, whatever code it held before.
C3_StateFromThisCycle ==
    [][(last'.op = "cycle" /\ ~last'.pause) =>
        \A j \in 1..Len(last'.kprocs) :
            last'.kprocs[j].p_pid \in DOMAIN processes => processes'[last'.kprocs[j].p_pid].state = ClassifierCode(last'.kprocs[j])]_vars

\* C10 as claimed: a cycle that is not paused adds the number of enumerated
\* records to the total-task counter, and to the running-task counter the
\* number of them the classifier maps to on-processor.
C10_CountersCount ==
    [][(last'.op = "cycle" /\ ~last'.pause) =>
        /\ totalTasks' = totalTasks + Len(last'.kprocs)
        /\ runningTasks' = runningTasks + Cardinality({j \in 1..Len(last'.kprocs) : ClassifierCode(last'.kprocs[j]) = "P"})
        /\ runningTasks' - runningTasks <= totalTasks' - totalTasks]_vars

RECURSIVE SpaceAfterEach(_)
\* Every argument followed by one space.
SpaceAfterEach(arg) == IF arg = <<>> THEN <<>> ELSE Head(arg) \o <<" ">> \o SpaceAfterEach(Tail(arg))

RECURSIVE SpaceBetween(_)
\* The arguments with one space between neighbours.
SpaceBetween(arg) == IF Len(arg) = 1 THEN arg[1] ELSE Head(arg) \o <<" ">> \o SpaceBetween(Tail(arg))

\* The records of the cycle whose name is read in it: those seen for the first
\* time, and all of them when names are read every cycle.
NameRead(kproc) == kproc.p_pid \notin DOMAIN processes \/ settings.updateProcessNames

\* C4 as claimed: a name read from an available, non-empty argument vector is
\* every argument followed by one space, the last one too, and the basename
\* boundary is the length of the first argument.
C4_TrailingSpaceKept ==
    [][(last'.op = "cycle" /\ ~last'.pause) =>
        \A j \in 1..Len(last'.kprocs) :
            LET kproc == last'.kprocs[j]
            IN  (NameRead(kproc) /\ kproc.argv.ok /\ kproc.argv.arg # <<>>) =>
                    /\ processes'[kproc.p_pid].comm = SpaceAfterEach(kproc.argv.arg)
                    /\ processes'[kproc.p_pid].basenameOffset = Len(kproc.argv.arg[1])]_vars

\* C4 as amended: a name read from an available, non-empty argument vector,
\* when the buffer for it is allocated, is the arguments in order with one
\* space between neighbours and none after the last, and the basename boundary
\* is the length of the first argument.
C4_TrailingSpaceCut ==
    [][(last'.op = "cycle" /\ ~last'.pause) =>
        \A j \in 1..Len(last'.kprocs) :
            LET kproc == last'.kprocs[j]
            IN  (NameRead(kproc) /\ kproc.argv.ok /\ kproc.argv.arg # <<>> /\ kproc.mallocOk) =>
                    /\ processes'[kproc.p_pid].comm = SpaceBetween(kproc.argv.arg)
                    /\ processes'[kproc.p_pid].basenameOffset = Len(kproc.argv.arg[1])]_vars

\* "vim -R file.txt", read from its three arguments, with the boundary at 3.
C4_Witness ==
    /\ ScanDone /\ Len(last.kprocs) = 1 /\ last.kprocs[1].argv.arg = ExampleArgv /\ last.kprocs[1].mallocOk
    /\ processes[last.kprocs[1].p_pid].comm = <<"v", "i", "m", " ", "-", "R", " ", "f", "i", "l", "e", ".", "t", "x", "t">>
    /\ processes[last.kprocs[1].p_pid].basenameOffset = 3

\* The memory snapshot of the specification, from the page counters.
SnapshotOf(u, psKB) ==
    [totalMem |-> u.npages * psKB, buffersMem |-> u.filepages * psKB, cachedMem |-> (u.anonpages + u.filepages + u.execpages) * psKB,
     usedMem |-> (u.npages - u.free - u.paging + u.filepages + u.anonpages + u.filepages + u.execpages) * psKB,
     totalSwap |-> u.swpages * psKB, usedSwap |-> u.swpginuse * psKB]

\* C5: a paused cycle recomputes the memory snapshot and stores every real
\* core's counters, with their periods, and leaves the process table, every
\* record in it and the two task counters as they were.
C5_PausedCycle ==
    [][(last'.op = "cycle" /\ last'.pause) =>
        /\ processes' = processes
        /\ totalTasks' = totalTasks
        /\ runningTasks' = runningTasks
        /\ mem' = SnapshotOf(last'.uvmexp, pageSizeKB)
        /\ \A i \in 0..cpuCount : \A st \in 1..5 :
              /\ i >= 1 => TimesOf(cpus'[i])[st] = last'.kernelTimes[i - 1][st - 1]
              /\ PeriodsOf(cpus'[i])[st] = Max0(TimesOf(cpus'[i])[st] - TimesOf(cpus[i])[st])]_vars

\* A paused cycle over a table that holds a record not marked updated, in which
\* the memory grew to 32 KiB and a user tick passed.
C5_Witness == CycleDone /\ last.pause /\ mem.totalMem = 32 /\ cpus[1].userPeriod = 1 /\ \E p \in DOMAIN processes : ~processes[p].updated

\* C6: in a cycle that is not paused, a record whose process id is not
\* enumerated stays in the table with every field as it was, and every record
\* the cycle creates or changes has an enumerated process id.
C6_AbsentUntouched ==
    [][(last'.op = "cycle" /\ ~last'.pause) =>
        /\ \A p \in (DOMAIN processes) \ PidsOf(last'.kprocs) : p \in DOMAIN processes' /\ processes'[p] = processes[p]
        /\ \A p \in DOMAIN processes' : (p \notin DOMAIN processes \/ processes'[p] # processes[p]) => p \in PidsOf(last'.kprocs)]_vars

\* A cycle that enumerated one process while the table held another, which is
\* still there and not marked updated.
C6_Witness == ScanDone /\ Len(last.kprocs) = 1 /\ \E p \in DOMAIN processes : p \notin PidsOf(last.kprocs) /\ ~processes[p].updated

\* The fraction x is the fraction y.
FracEq(x, y) == x[1] * y[2] = y[1] * x[2]

\* The fraction x is 100 * p_pctcpu / fs kept within [0, n * 100], and 0 when
\* fs is 0.
PercentCpuIs(x, p_pctcpu, fs, n) ==
    /\ x[2] > 0
    /\ fs = 0 => x[1] = 0
    /\ fs > 0 => IF 100 * p_pctcpu > n * 100 * fs THEN x[1] = n * 100 * x[2] ELSE x[1] * fs = 100 * p_pctcpu * x[2]
    /\ fs < 0 => IF p_pctcpu > 0 THEN x[1] = 0 ELSE x[1] * fs = 100 * p_pctcpu * x[2]

\* C9: in a cycle that enumerates a process id the table already holds, the
\* record keeps its parent, session, terminal, process group, owner and start
\* time, whatever the kernel reports, and its memory sizes, CPU and memory
\* percent, thread count, nice value, time and priority are those of the
\* kernel's record.
C9_IdentityOnce ==
    [][(last'.op = "cycle" /\ ~last'.pause) =>
        \A j \in 1..Len(last'.kprocs) :
            LET kproc == last'.kprocs[j]
                new == processes'[kproc.p_pid]
            IN  /\ kproc.p_pid \in DOMAIN processes =>
                    LET old == processes[kproc.p_pid]
                    IN  <<new.ppid, new.session, new.tty_nr, new.pgrp, new.st_uid, new.starttime_ctime>> = <<old.ppid, old.session, old.tty_nr, old.pgrp, old.st_uid, old.starttime_ctime>>
                /\ kproc.p_pid \notin DOMAIN processes =>
                    <<new.ppid, new.session, new.tty_nr, new.pgrp, new.st_uid, new.starttime_ctime>> = <<kproc.p_ppid, kproc.p_sid, kproc.p_tdev, kproc.p__pgid, kproc.p_uid, kproc.p_ustart_sec>>
                /\ new.m_virt = kproc.p_vm_vsize /\ new.m_resident = kproc.p_vm_rssize /\ new.nlwp = kproc.p_nlwps
                /\ new.nice = kproc.p_nice - 20 /\ new.priority = kproc.p_priority - 22
                /\ new.time = 100 * (kproc.p_rtime_sec + (kproc.p_rtime_usec + 500000) \div 1000000)
                /\ PercentCpuIs(new.percent_cpu, kproc.p_pctcpu, fscale, cpuCount)
                /\ FracEq(new.percent_mem, <<100 * kproc.p_vm_rssize * pageSizeKB, mem'.totalMem>>)]_vars

\* A record enumerated again with another parent and other sizes: it keeps the
\* parent of its first observation and has the sizes of this cycle.
C9_Witness == ScanDone /\ \E j \in 1..Len(last.kprocs) : processes[last.kprocs[j].p_pid].ppid # last.kprocs[j].p_ppid /\ processes[last.kprocs[j].p_pid].time = 1100 /\ processes[last.kprocs[j].p_pid].m_virt = last.kprocs[j].p_vm_vsize

\* C7: after a cycle that is not paused, every enumerated record's CPU percent
\* is within [0, cpuCount * 100]: it is 0 when the scale factor is 0, and
\* otherwise 100 * p_pctcpu / fscale, or the limit that value is beyond.
C7_PercentCpuClamped ==
    ScanDone =>
        \A j \in 1..Len(last.kprocs) :
            LET x == processes[last.kprocs[j].p_pid].percent_cpu
            IN  /\ 0 <= x[1] /\ x[1] <= cpuCount * 100 * x[2]
                /\ PercentCpuIs(x, last.kprocs[j].p_pctcpu, fscale, cpuCount)

\* A record whose raw fraction is beyond the limit and whose percent is the limit.
C7_Witness == ScanDone /\ fscale > 0 /\ \E j \in 1..Len(last.kprocs) : 100 * last.kprocs[j].p_pctcpu > cpuCount * 100 * fscale /\ processes[last.kprocs[j].p_pid].percent_cpu = <<cpuCount * 100, 1>>

====
